---- MODULE Spec2Model ----
(***************************************************************************)
(* The Flux orchestrator of src/flux/src/flux.rs: the frame clock          *)
(* (last_timestamp, elapsed_time, frame_time, fluid_timestep), the held    *)
(* settings, and the passes that animate and update issue to the fluid     *)
(* solver, the noise generator, the drawer and the graphics context.       *)
(*                                                                         *)
(* Time in seconds (the f32 fields) is counted in ticks of 1/TicksPerMs    *)
(* milliseconds, so that 1/30 s and 1/60 s are whole numbers of ticks and  *)
(* the arithmetic of animate is exact; timestamps stay in milliseconds.    *)
(***************************************************************************)
EXTENDS Integers, Sequences, FiniteSets

\* ---------------------------------------------------------------- bounds

\* Resolution of the seconds-valued fields: ticks per millisecond.
TicksPerMs == 3

\* Number of animate calls explored after the starting state.
MaxFrames == 4

\* Number of animate calls explored between construction and resize calls.
MaxLifeFrames == 2

\* Number of animate calls explored when two orchestrators run side by side.
MaxModeFrames == 3

\* A session that has already run this many frames, 10 ms apart, is the
\* second starting state (elapsed_time is then close to MAX_ELAPSED_TIME).
WarmFrames == 99995

\* Timestamp differences (ms) between an animate call and the previous one:
\* a clock that went backwards, a repeated timestamp, 60 Hz frames, slower
\* frames and a stall longer than MAX_FRAME_TIME.
FrameDeltas == {-20, 0, 16, 17, 40, 60, 250}

\* The simulation rates (Hz) and modes a settings bundle may carry.
FrameRates == {30, 60}

Modes == {"Normal", "DebugNoise", "DebugFluid", "DebugPressure", "DebugDivergence"}

\* The noise channel lists a settings bundle may carry: none, or two channels.
NoiseChannelLists == { <<>>, <<"channel_a", "channel_b">> }

SettingsSet ==
    [fluid_simulation_frame_rate : FrameRates, mode : Modes,
     noise_channels : NoiseChannelLists]

\* The settings the frame loop is explored with: animate reads the mode and
\* new the rate, neither reads noise_channels.
FrameSettings == {s \in SettingsSet : s.noise_channels = <<>>}

\* The problems a component (render::Problem) may report.
RenderProblems == {"problem_a", "problem_b"}

\* The window sizes new and resize may be given.
Sizes ==
    { [logical_width |-> 800, logical_height |-> 600,
       physical_width |-> 1600, physical_height |-> 1200],
      [logical_width |-> 1, logical_height |-> 1,
       physical_width |-> 1, physical_height |-> 1] }

\* ------------------------------------------------------------- constants

TicksPerSecond == 1000 * TicksPerMs

\* const MAX_ELAPSED_TIME: f32 = 1000.0;
MAX_ELAPSED_TIME == 1000 * TicksPerSecond

\* const MAX_FRAME_TIME: f32 = 1.0 / 10.0;
MAX_FRAME_TIME == TicksPerSecond \div 10

\* 0.001 * (milliseconds) as f32
MsToSeconds(ms) == ms * TicksPerMs

\* 1.0 / settings.fluid_simulation_frame_rate
Reciprocal(rate) == TicksPerSecond \div rate

\* ----------------------------------------------------------------- state

VARIABLES
    last_timestamp,   \* Flux.last_timestamp (ms)
    elapsed_time,     \* Flux.elapsed_time (ticks)
    frame_time,       \* Flux.frame_time: the substep accumulator (ticks)
    fluid_timestep,   \* Flux.fluid_timestep: the fixed substep (ticks)
    settings,         \* Flux.settings: the bundle currently held
    calls,            \* the calls issued by the last operation, in order
    timestep,         \* the local `timestep` of the last animate call
    frames,           \* animate calls since the starting state
    substeps,         \* substeps executed since the starting state
    used,             \* sum of the deltas added to the clock since the starting state
    advance,          \* timestamp advance (ms) since the starting state
    backwards,        \* some animate call had timestamp < last_timestamp
    clamped,          \* some animate call had its delta cut to MAX_FRAME_TIME
    twin,             \* under SpecModes, a second orchestrator given the same calls
    script,           \* under SpecScript, the timestamps the animate calls are given
    status,           \* "unbuilt", "running", "failed" (new returned Err) or "panicked"
    outcome           \* what the last operation returned or raised

clock == <<last_timestamp, elapsed_time, frame_time, fluid_timestep>>

ghost == <<timestep, frames, substeps, used, advance, backwards, clamped>>

vars == <<last_timestamp, elapsed_time, frame_time, fluid_timestep, settings,
          calls, timestep, frames, substeps, used, advance, backwards, clamped,
          twin, script, status, outcome>>

\* ------------------------------------------------------------- the calls

Call(op, t, dt, tex) == [op |-> op, t |-> t, dt |-> dt, tex |-> tex]

\* A call that is handed a settings bundle, a channel or a size.
CallWith(op, arg) == [op |-> op, t |-> 0, dt |-> 0, tex |-> "none", arg |-> arg]

\* The names of the noise and solver passes of one substep.
SimulationOps ==
    {"generate", "advect_forward", "advect_reverse", "adjust_advection",
     "diffuse", "blend_noise_into", "calculate_divergence", "solve_pressure",
     "subtract_gradient"}

DrawOps == {"draw_lines", "draw_endpoints", "draw_texture"}

\* ------------------------------------------------------------ the results

OkOutcome == [kind |-> "Ok", problem |-> "none"]

NoOutcome == [kind |-> "none", problem |-> "none"]

\* Problem::CannotRender(render::Problem)
CannotRender(problem) == [kind |-> "CannotRender", problem |-> problem]

\* A panic: Result::unwrap on an Err.
Panic(problem) == [kind |-> "panic", problem |-> problem]

\* What Fluid::new, Drawer::new, NoiseGeneratorBuilder::build and
\* Drawer::resize may return.
ComponentResults ==
    {OkOutcome} \cup {[kind |-> "Err", problem |-> p] : p \in RenderProblems}

\* --------------------------------------------------------------- animate

\* f32::min on two numbers
F32Min_max(a, b) == IF a < b THEN b ELSE a

F32Min(a, b) == IF a < b THEN a ELSE b

\* let timestep = f32::min(MAX_FRAME_TIME, (0.001 * (timestamp - self.last_timestamp)) as f32);
Timestep_unclamped(last, timestamp) == MsToSeconds(timestamp - last)

Timestep(last, timestamp) == F32Min(MAX_FRAME_TIME, MsToSeconds(timestamp - last))

\* let timer_overflow = self.elapsed_time - MAX_ELAPSED_TIME;
\* if timer_overflow >= 0.0 { self.elapsed_time = timer_overflow; }
ResetTimer_zero(elapsed) ==
    LET timer_overflow == elapsed - MAX_ELAPSED_TIME
    IN  IF timer_overflow >= 0 THEN 0 ELSE elapsed

ResetTimer_late(elapsed) ==
    LET timer_overflow == elapsed - MAX_ELAPSED_TIME
    IN  IF timer_overflow > 0 THEN timer_overflow ELSE elapsed

ResetTimer_never(elapsed) == elapsed

ResetTimer(elapsed) ==
    LET timer_overflow == elapsed - MAX_ELAPSED_TIME
    IN  IF timer_overflow >= 0 THEN timer_overflow ELSE elapsed

\* The body of the while loop: the passes of one substep, in program order.
SubstepPasses_swapped(elapsed, dt) ==
    << Call("generate", elapsed, 0, "none"),
       Call("advect_forward", 0, dt, "none"),
       Call("advect_reverse", 0, dt, "none"),
       Call("adjust_advection", 0, dt, "none"),
       Call("blend_noise_into", 0, dt, "velocity"),
       Call("diffuse", 0, dt, "none"),
       Call("calculate_divergence", 0, 0, "none"),
       Call("solve_pressure", 0, 0, "none"),
       Call("subtract_gradient", 0, 0, "none") >>

SubstepPasses(elapsed, dt) ==
    << Call("generate", elapsed, 0, "none"),
       Call("advect_forward", 0, dt, "none"),
       Call("advect_reverse", 0, dt, "none"),
       Call("adjust_advection", 0, dt, "none"),
       Call("diffuse", 0, dt, "none"),
       Call("blend_noise_into", 0, dt, "velocity"),
       Call("calculate_divergence", 0, 0, "none"),
       Call("solve_pressure", 0, 0, "none"),
       Call("subtract_gradient", 0, 0, "none") >>

\* while self.frame_time >= self.fluid_timestep { ...; self.frame_time -= self.fluid_timestep; }
\* The result is the accumulator when the loop exits, the passes issued and
\* the number of iterations.
RECURSIVE Drain_strict(_, _, _)
Drain_strict(ft, dt, elapsed) ==
    IF ft > dt
    THEN LET rest == Drain_strict(ft - dt, dt, elapsed)
         IN  [frame_time |-> rest.frame_time,
              calls      |-> SubstepPasses(elapsed, dt) \o rest.calls,
              n          |-> rest.n + 1]
    ELSE [frame_time |-> ft, calls |-> <<>>, n |-> 0]

\* The loop with the remainder thrown away when it exits.
RECURSIVE Drain_reset(_, _, _)
Drain_reset(ft, dt, elapsed) ==
    IF ft >= dt
    THEN LET rest == Drain_reset(ft - dt, dt, elapsed)
         IN  [frame_time |-> rest.frame_time,
              calls      |-> SubstepPasses(elapsed, dt) \o rest.calls,
              n          |-> rest.n + 1]
    ELSE [frame_time |-> 0, calls |-> <<>>, n |-> 0]

\* The loop advancing the timer it hands to the noise with every substep.
RECURSIVE Drain_advancing(_, _, _)
Drain_advancing(ft, dt, elapsed) ==
    IF ft >= dt
    THEN LET rest == Drain_advancing(ft - dt, dt, elapsed + dt)
         IN  [frame_time |-> rest.frame_time,
              calls      |-> SubstepPasses(elapsed, dt) \o rest.calls,
              n          |-> rest.n + 1]
    ELSE [frame_time |-> ft, calls |-> <<>>, n |-> 0]

\* The loop running a substep as soon as any time has accumulated.
RECURSIVE Drain_eager(_, _, _)
Drain_eager(ft, dt, elapsed) ==
    IF ft > 0
    THEN LET rest == Drain_eager(ft - dt, dt, elapsed)
         IN  [frame_time |-> rest.frame_time,
              calls      |-> SubstepPasses(elapsed, dt) \o rest.calls,
              n          |-> rest.n + 1]
    ELSE [frame_time |-> ft, calls |-> <<>>, n |-> 0]

RECURSIVE Drain(_, _, _)
Drain(ft, dt, elapsed) ==
    IF ft >= dt
    THEN LET rest == Drain(ft - dt, dt, elapsed)
         IN  [frame_time |-> rest.frame_time,
              calls      |-> SubstepPasses(elapsed, dt) \o rest.calls,
              n          |-> rest.n + 1]
    ELSE [frame_time |-> ft, calls |-> <<>>, n |-> 0]

\* self.drawer.place_lines(&self.fluid.get_velocity(), self.elapsed_time, timestep);
\* self.context.clear_color(0.0, 0.0, 0.0, 1.0); self.context.clear(glow::COLOR_BUFFER_BIT);
FrameTail(elapsed, dt) ==
    << Call("place_lines", elapsed, dt, "velocity"),
       Call("clear_color", 0, 0, "none"),
       Call("clear", 0, 0, "none") >>

\* match &self.settings.mode { ... }
DrawPath_crossed(mode) ==
    CASE mode = "Normal" ->
            << Call("draw_lines", 0, 0, "none"), Call("draw_endpoints", 0, 0, "none") >>
      [] mode = "DebugNoise" -> << Call("draw_texture", 0, 0, "noise") >>
      [] mode = "DebugFluid" -> << Call("draw_texture", 0, 0, "velocity") >>
      [] mode = "DebugPressure" -> << Call("draw_texture", 0, 0, "divergence") >>
      [] mode = "DebugDivergence" -> << Call("draw_texture", 0, 0, "pressure") >>

\* The debug view of the pressure field solves the pressure again first.
DrawPath_resolve(mode) ==
    CASE mode = "Normal" ->
            << Call("draw_lines", 0, 0, "none"), Call("draw_endpoints", 0, 0, "none") >>
      [] mode = "DebugNoise" -> << Call("draw_texture", 0, 0, "noise") >>
      [] mode = "DebugFluid" -> << Call("draw_texture", 0, 0, "velocity") >>
      [] mode = "DebugPressure" ->
            << Call("solve_pressure", 0, 0, "none"), Call("draw_texture", 0, 0, "pressure") >>
      [] mode = "DebugDivergence" -> << Call("draw_texture", 0, 0, "divergence") >>

DrawPath(mode) ==
    CASE mode = "Normal" ->
            << Call("draw_lines", 0, 0, "none"), Call("draw_endpoints", 0, 0, "none") >>
      [] mode = "DebugNoise" -> << Call("draw_texture", 0, 0, "noise") >>
      [] mode = "DebugFluid" -> << Call("draw_texture", 0, 0, "velocity") >>
      [] mode = "DebugPressure" -> << Call("draw_texture", 0, 0, "pressure") >>
      [] mode = "DebugDivergence" -> << Call("draw_texture", 0, 0, "divergence") >>

\* animate with place_lines given the timer as it was before the reset.
animate_unwrapped(self, timestamp) ==
    LET dt      == Timestep(self.last_timestamp, timestamp)
        elapsed == ResetTimer(self.elapsed_time + dt)
        loop    == Drain(self.frame_time + dt, self.fluid_timestep, elapsed)
    IN  [last_timestamp |-> timestamp,
         elapsed_time   |-> elapsed,
         frame_time     |-> loop.frame_time,
         fluid_timestep |-> self.fluid_timestep,
         settings       |-> self.settings,
         timestep       |-> dt,
         n              |-> loop.n,
         calls          |-> loop.calls \o FrameTail(self.elapsed_time + dt, dt)
                                       \o DrawPath(self.settings.mode)]

\* pub fn animate(&mut self, timestamp: f64), on the fields of `self`.
animate(self, timestamp) ==
    LET dt      == Timestep(self.last_timestamp, timestamp)
        elapsed == ResetTimer(self.elapsed_time + dt)
        loop    == Drain(self.frame_time + dt, self.fluid_timestep, elapsed)
    IN  [last_timestamp |-> timestamp,
         elapsed_time   |-> elapsed,
         frame_time     |-> loop.frame_time,
         fluid_timestep |-> self.fluid_timestep,
         settings       |-> self.settings,
         timestep       |-> dt,
         n              |-> loop.n,
         calls          |-> loop.calls \o FrameTail(elapsed, dt)
                                       \o DrawPath(self.settings.mode)]

\* ---------------------------------------------------------------- update

\* self.fluid.update(&self.settings); self.drawer.update(&self.settings);
\* self.noise_generator.update(&self.settings.noise_channels);
\* with self.settings already replaced by the bundle given.
UpdateCalls(held) ==
    << CallWith("fluid_update", held),
       CallWith("drawer_update", held),
       CallWith("noise_generator_update", held.noise_channels) >>

\* update that forwards the settings held before the call, and drops the
\* leftover of the accumulator.
update_stale(self, new_settings) ==
    [last_timestamp |-> self.last_timestamp,
     elapsed_time   |-> self.elapsed_time,
     frame_time     |-> 0,
     fluid_timestep |-> self.fluid_timestep,
     settings       |-> new_settings,
     calls          |-> UpdateCalls(self.settings)]

\* pub fn update(&mut self, settings: &Rc<Settings>), on the fields of `self`.
update(self, new_settings) ==
    [last_timestamp |-> self.last_timestamp,
     elapsed_time   |-> self.elapsed_time,
     frame_time     |-> self.frame_time,
     fluid_timestep |-> self.fluid_timestep,
     settings       |-> new_settings,
     calls          |-> UpdateCalls(new_settings)]

\* ------------------------------------------------------------------- new

\* Ok(Flux { .., last_timestamp: 0.0, elapsed_time: 0.0, frame_time: 0.0,
\*           fluid_timestep: 1.0 / settings.fluid_simulation_frame_rate })
new(initial_settings) ==
    [last_timestamp |-> 0,
     elapsed_time   |-> 0,
     frame_time     |-> 0,
     fluid_timestep |-> Reciprocal(initial_settings.fluid_simulation_frame_rate),
     settings       |-> initial_settings]

\* The calls of NoiseGenerator::new(&context, 256, 256), add_channel for each
\* channel of the settings, in order, and build.
NoiseGeneratorCalls(channels) ==
    << CallWith("noise_generator_new", <<256, 256>>) >>
    \o [i \in 1..Len(channels) |-> CallWith("add_channel", channels[i])]
    \o << CallWith("build", "none") >>

\* pub fn new(context, logical_width, .., settings) -> Result<Flux, Problem>:
\* the calls made, whether a Flux is returned, and the result. Each `?`
\* returns at the first Err, mapped by Problem::CannotRender.
construct_late(size, initial_settings, fluid_result, drawer_result, build_result) ==
    LET fluid_calls  == << CallWith("fluid_new", initial_settings) >>
        drawer_calls == << CallWith("drawer_new",
                                    [size |-> size, settings |-> initial_settings]) >>
        noise_calls  == NoiseGeneratorCalls(initial_settings.noise_channels)
        all_calls    == fluid_calls \o drawer_calls \o noise_calls
    IN  IF fluid_result.kind # "Ok"
        THEN [built |-> FALSE, outcome |-> CannotRender(fluid_result.problem),
              calls |-> all_calls]
        ELSE IF drawer_result.kind # "Ok"
        THEN [built |-> FALSE, outcome |-> CannotRender(drawer_result.problem),
              calls |-> all_calls]
        ELSE IF build_result.kind # "Ok"
        THEN [built |-> FALSE, outcome |-> CannotRender(build_result.problem),
              calls |-> all_calls]
        ELSE [built |-> TRUE, outcome |-> OkOutcome, calls |-> all_calls]

construct(size, initial_settings, fluid_result, drawer_result, build_result) ==
    LET fluid_calls  == << CallWith("fluid_new", initial_settings) >>
        drawer_calls == << CallWith("drawer_new",
                                    [size |-> size, settings |-> initial_settings]) >>
        noise_calls  == NoiseGeneratorCalls(initial_settings.noise_channels)
    IN  IF fluid_result.kind # "Ok"
        THEN [built |-> FALSE, outcome |-> CannotRender(fluid_result.problem),
              calls |-> fluid_calls]
        ELSE IF drawer_result.kind # "Ok"
        THEN [built |-> FALSE, outcome |-> CannotRender(drawer_result.problem),
              calls |-> fluid_calls \o drawer_calls]
        ELSE IF build_result.kind # "Ok"
        THEN [built |-> FALSE, outcome |-> CannotRender(build_result.problem),
              calls |-> fluid_calls \o drawer_calls \o noise_calls]
        ELSE [built |-> TRUE, outcome |-> OkOutcome,
              calls |-> fluid_calls \o drawer_calls \o noise_calls]

\* ---------------------------------------------------------------- resize

\* resize that swallows the failure of the drawer.
resize_ignoring(size, drawer_result) ==
    [calls   |-> << CallWith("drawer_resize", size) >>,
     outcome |-> OkOutcome]

\* pub fn resize(&mut self, logical_width, ..):
\* self.drawer.resize(..).unwrap();
resize(size, drawer_result) ==
    [calls   |-> << CallWith("drawer_resize", size) >>,
     outcome |-> IF drawer_result.kind = "Ok"
                 THEN OkOutcome
                 ELSE Panic(drawer_result.problem)]

\* The orchestrator built by new(initial_settings) after n animate calls at
\* timestamps 10, 20, .., 10 * n ms: every delta is 10 ms, below
\* MAX_FRAME_TIME, so the clock has advanced by n * 10 ms in all,
\* elapsed_time has wrapped each time it reached MAX_ELAPSED_TIME and
\* frame_time holds what the whole substeps left over.
Warmed(initial_settings, n) ==
    LET fresh == new(initial_settings)
        total == n * MsToSeconds(10)
    IN  [fresh EXCEPT !.last_timestamp = n * 10,
                      !.elapsed_time   = total % MAX_ELAPSED_TIME,
                      !.frame_time     = total % fresh.fluid_timestep]

Self ==
    [last_timestamp |-> last_timestamp,
     elapsed_time   |-> elapsed_time,
     frame_time     |-> frame_time,
     fluid_timestep |-> fluid_timestep,
     settings       |-> settings]

\* The fields of an orchestrator and the calls of its last operation.
Orchestrator(self, log) ==
    [last_timestamp |-> self.last_timestamp,
     elapsed_time   |-> self.elapsed_time,
     frame_time     |-> self.frame_time,
     fluid_timestep |-> self.fluid_timestep,
     settings       |-> self.settings,
     calls          |-> log]

Started(start) ==
        (   /\ last_timestamp = start.last_timestamp
            /\ elapsed_time = start.elapsed_time
            /\ frame_time = start.frame_time
            /\ fluid_timestep = start.fluid_timestep
            /\ settings = start.settings
            /\ calls = <<>>
            /\ timestep = 0
            /\ frames = 0
            /\ used = 0
            /\ substeps = 0
            /\ advance = 0
            /\ backwards = FALSE
            /\ clamped = FALSE
            /\ status = "running"
            /\ outcome = OkOutcome )

Init ==
    \E s \in FrameSettings, n \in {0, WarmFrames} :
        /\ Started(Warmed(s, n))
        /\ twin = <<>>
        /\ script = <<>>

AnimateCall(timestamp) ==
    /\ status = "running"
    /\ frames < MaxFrames
    /\ UNCHANGED <<status, outcome>>
    /\ LET next == animate(Self, timestamp)
           raw  == MsToSeconds(timestamp - last_timestamp)
       IN  /\ last_timestamp' = next.last_timestamp
           /\ elapsed_time' = next.elapsed_time
           /\ frame_time' = next.frame_time
           /\ fluid_timestep' = next.fluid_timestep
           /\ settings' = next.settings
           /\ calls' = next.calls
           /\ timestep' = next.timestep
           /\ frames' = frames + 1
           /\ substeps' = substeps + next.n
           /\ used' = used + next.timestep
           /\ advance' = advance + (timestamp - last_timestamp)
           /\ backwards' = (backwards \/ raw < 0)
           /\ clamped' = (clamped \/ raw > MAX_FRAME_TIME)

UpdateCall(new_settings) ==
    LET next == update(Self, new_settings)
    IN  /\ status = "running"
        /\ UNCHANGED <<status, outcome>>
        /\ last_timestamp' = next.last_timestamp
        /\ elapsed_time' = next.elapsed_time
        /\ frame_time' = next.frame_time
        /\ fluid_timestep' = next.fluid_timestep
        /\ settings' = next.settings
        /\ calls' = next.calls
        /\ UNCHANGED ghost

Animate(timestamp) == AnimateCall(timestamp) /\ UNCHANGED <<twin, script>>

Update(new_settings) == UpdateCall(new_settings) /\ UNCHANGED <<twin, script>>

Next ==
    \/ \E d \in FrameDeltas : Animate(last_timestamp + d)
    \/ \E s \in FrameSettings : Update(s)

Spec == Init /\ [][Next]_vars

\* ------------------------------------------- two runs that differ in mode

\* Two orchestrators built from settings of the same simulation rate and any
\* two modes receive the same animate timestamps, and update calls whose
\* settings again agree on the rate and may differ in mode.
ModeFrameDeltas == {17, 60, 250}

InitModes ==
    \E s \in FrameSettings, m \in Modes, n \in {0, WarmFrames} :
        /\ Started(Warmed(s, n))
        /\ twin = Orchestrator(Warmed([s EXCEPT !.mode = m], n), <<>>)
        /\ script = <<>>

AnimateBoth(timestamp) ==
    /\ frames < MaxModeFrames
    /\ AnimateCall(timestamp)
    /\ twin' = Orchestrator(animate(twin, timestamp), animate(twin, timestamp).calls)
    /\ UNCHANGED script

UpdateBoth(new_settings, twin_mode) ==
    /\ UpdateCall(new_settings)
    /\ twin' = Orchestrator(update(twin, [new_settings EXCEPT !.mode = twin_mode]),
                            update(twin, [new_settings EXCEPT !.mode = twin_mode]).calls)
    /\ UNCHANGED script

NextModes ==
    \/ \E d \in ModeFrameDeltas : AnimateBoth(last_timestamp + d)
    \/ \E s \in FrameSettings, m \in Modes : UpdateBoth(s, m)

SpecModes == InitModes /\ [][NextModes]_vars

\* ------------------------------------------- construction and resizing

\* Before new has run there is no orchestrator: the fields hold nothing yet.
NoSettings == [fluid_simulation_frame_rate |-> 0, mode |-> "none", noise_channels |-> <<>>]

LifeFrameDeltas == {17, 250}

InitLifecycle ==
    /\ last_timestamp = 0
    /\ elapsed_time = 0
    /\ frame_time = 0
    /\ fluid_timestep = 0
    /\ settings = NoSettings
    /\ calls = <<>>
    /\ timestep = 0
    /\ frames = 0
    /\ used = 0
    /\ substeps = 0
    /\ advance = 0
    /\ backwards = FALSE
    /\ clamped = FALSE
    /\ twin = <<>>
    /\ script = <<>>
    /\ status = "unbuilt"
    /\ outcome = NoOutcome

New(size, initial_settings, fluid_result, drawer_result, build_result) ==
    LET made == construct(size, initial_settings, fluid_result, drawer_result,
                          build_result)
    IN  /\ status = "unbuilt"
        /\ calls' = made.calls
        /\ outcome' = made.outcome
        /\ IF made.built
           THEN /\ status' = "running"
                /\ last_timestamp' = new(initial_settings).last_timestamp
                /\ elapsed_time' = new(initial_settings).elapsed_time
                /\ frame_time' = new(initial_settings).frame_time
                /\ fluid_timestep' = new(initial_settings).fluid_timestep
                /\ settings' = new(initial_settings).settings
           ELSE /\ status' = "failed"
                /\ UNCHANGED <<last_timestamp, elapsed_time, frame_time,
                               fluid_timestep, settings>>
        /\ UNCHANGED <<ghost, twin, script>>

Resize(size, drawer_result) ==
    /\ status = "running"
    /\ calls' = resize(size, drawer_result).calls
    /\ outcome' = resize(size, drawer_result).outcome
    /\ status' = IF resize(size, drawer_result).outcome.kind = "panic"
                 THEN "panicked"
                 ELSE "running"
    /\ UNCHANGED <<last_timestamp, elapsed_time, frame_time, fluid_timestep,
                   settings, ghost, twin, script>>

AnimateLife(timestamp) ==
    /\ frames < MaxLifeFrames
    /\ AnimateCall(timestamp)
    /\ UNCHANGED <<twin, script>>

UpdateLife(new_settings) == UpdateCall(new_settings) /\ UNCHANGED <<twin, script>>

NextLifecycle ==
    \/ \E size \in Sizes, s \in SettingsSet :
          \E fluid_result, drawer_result, build_result \in ComponentResults :
             New(size, s, fluid_result, drawer_result, build_result)
    \/ \E size \in Sizes, drawer_result \in ComponentResults :
          Resize(size, drawer_result)
    \/ \E d \in LifeFrameDeltas : AnimateLife(last_timestamp + d)
    \/ \E s \in SettingsSet : UpdateLife(s)

SpecLifecycle == InitLifecycle /\ [][NextLifecycle]_vars

\* ------------------------------------------------------- scripted frames

\* A freshly constructed orchestrator is given the timestamps of one script,
\* in order, one per animate call; update may come between the frames.
\* The scripts: 60 Hz display frames from 0 ms; the same frames against a
\* clock that started late; a stall followed by a repeated timestamp.
Scripts == { <<0, 16, 33, 50>>, <<5000, 5016, 5033, 5050>>, <<0, 250, 250, 266>> }

InitScript ==
    \E s \in FrameSettings, sc \in Scripts :
        /\ Started(new(s))
        /\ twin = <<>>
        /\ script = sc

AnimateScript ==
    /\ frames < Len(script)
    /\ AnimateCall(script[frames + 1])
    /\ UNCHANGED <<twin, script>>

UpdateScript(new_settings) == UpdateCall(new_settings) /\ UNCHANGED <<twin, script>>

NextScript ==
    \/ AnimateScript
    \/ \E s \in FrameSettings : UpdateScript(s)

SpecScript == InitScript /\ [][NextScript]_vars

\* ---------------------------------------------------------------- claims

\* How many calls of the log are named op.
CountOp(log, op) == Cardinality({i \in 1..Len(log) : log[i].op = op})

\* The last operation was an animate call.
AfterAnimate == Len(calls) > 0 /\ calls[Len(calls)].op \in DrawOps

\* The number of substeps the last animate call ran.
SubstepsOfFrame == CountOp(calls, "generate")

\* C1: after every animate call, from any reachable state and for any
\* timestamp, frame_time is strictly less than fluid_timestep: the drain loop
\* never returns with a whole substep still due.
C1_AccumulatorBelowSubstep == frame_time < fluid_timestep

\* An animate call that ran at least two substeps and left a remainder.
C1_Witness ==
    AfterAnimate /\ SubstepsOfFrame >= 2 /\ frame_time > 0 /\ frame_time < fluid_timestep

\* C2: for any raw delta d = 0.001 * (timestamp - last_timestamp), the delta
\* that animate adds to elapsed_time and to frame_time is
\* min(d, MAX_FRAME_TIME), and so never exceeds MAX_FRAME_TIME.
C2_DeltaClamped ==
    [][frames' # frames =>
        LET d == MsToSeconds(last_timestamp' - last_timestamp)
            u == IF d < MAX_FRAME_TIME THEN d ELSE MAX_FRAME_TIME
        IN  /\ u <= MAX_FRAME_TIME
            /\ timestep' = u
            /\ frame_time' + CountOp(calls', "generate") * fluid_timestep = frame_time + u
            /\ elapsed_time' \in {elapsed_time + u, elapsed_time + u - MAX_ELAPSED_TIME}
    ]_vars

\* An animate call after a stall: the raw delta was above MAX_FRAME_TIME and
\* the clock moved by MAX_FRAME_TIME.
C2_Witness ==
    /\ AfterAnimate
    /\ frames = 1
    /\ MsToSeconds(advance) > MAX_FRAME_TIME
    /\ timestep = MAX_FRAME_TIME

UsedDelta(before, after) ==
    IF MsToSeconds(after - before) < MAX_FRAME_TIME
    THEN MsToSeconds(after - before)
    ELSE MAX_FRAME_TIME

\* An animate call that pushes elapsed_time to or past MAX_ELAPSED_TIME
\* leaves the old value plus the delta minus MAX_ELAPSED_TIME.
WrapKeepsOverflow ==
    (frames' # frames
        /\ elapsed_time + UsedDelta(last_timestamp, last_timestamp') >= MAX_ELAPSED_TIME)
    => elapsed_time' = elapsed_time + UsedDelta(last_timestamp, last_timestamp')
                       - MAX_ELAPSED_TIME

C6_BoundedCatchUp ==
    [][(frames' # frames /\ fluid_timestep > 0 /\ frame_time < fluid_timestep) =>
        /\ CountOp(calls', "generate") <=
               (fluid_timestep + MAX_FRAME_TIME) \div fluid_timestep
        /\ substeps' = substeps + CountOp(calls', "generate")
    ]_vars

\* An animate call after a stall longer than MAX_FRAME_TIME that entered with
\* time left in the accumulator and ran a full MAX_FRAME_TIME of substeps.
C6_Witness ==
    /\ AfterAnimate
    /\ MsToSeconds(advance) > used
    /\ timestep = MAX_FRAME_TIME
    /\ frame_time > 0
    /\ SubstepsOfFrame * fluid_timestep >= MAX_FRAME_TIME

\* The order of the passes of a substep that C7 states.
PassOrder ==
    << "generate", "advect_forward", "advect_reverse", "adjust_advection",
       "diffuse", "blend_noise_into", "calculate_divergence", "solve_pressure",
       "subtract_gradient" >>

\* The log of an animate call starts with n whole runs of PassOrder and holds
\* no other noise or solver pass.
WholeSubsteps(log, n) ==
    /\ Len(log) >= n * Len(PassOrder)
    /\ \A i \in 1..Len(log) :
          IF i <= n * Len(PassOrder)
          THEN log[i].op = PassOrder[((i - 1) % Len(PassOrder)) + 1]
          ELSE log[i].op \notin SimulationOps

\* C7: every substep executed by animate issues its passes in the order noise
\* generate, advect forward, advect reverse, adjust advection, diffuse, blend
\* noise into velocity, calculate divergence, solve pressure, subtract
\* gradient, each once, with no pass of another substep interleaved, and the
\* accumulator is decremented by fluid_timestep once per substep so issued.
C7_SubstepPipelineOrder ==
    /\ [](AfterAnimate => \E n \in 0..Len(calls) : WholeSubsteps(calls, n))
    /\ [][frames' # frames =>
            \E n \in 0..Len(calls') :
                /\ WholeSubsteps(calls', n)
                /\ frame_time' = frame_time
                                 + UsedDelta(last_timestamp, last_timestamp')
                                 - n * fluid_timestep
       ]_vars

\* An animate call that ran three substeps back to back.
C7_Witness ==
    /\ AfterAnimate
    /\ WholeSubsteps(calls, 3)
    /\ calls[3 * Len(PassOrder)].op = "subtract_gradient"
    /\ calls[2 * Len(PassOrder) + 1].op = "generate"

\* The texture C8 states for each debug mode.
TextureOfMode(mode) ==
    CASE mode = "DebugNoise" -> "noise"
      [] mode = "DebugFluid" -> "velocity"
      [] mode = "DebugPressure" -> "pressure"
      [] mode = "DebugDivergence" -> "divergence"
      [] OTHER -> "none"

\* The names of the draw calls C8 states for a mode.
DrawNamesOfMode(mode) ==
    IF mode = "Normal" THEN << "draw_lines", "draw_endpoints" >>
                       ELSE << "draw_texture" >>

\* The log ends with place_lines, the clear and the draw path of the mode,
\* and holds each of them nowhere else.
FrameTailOf(log, mode) ==
    LET draws == DrawNamesOfMode(mode)
        p     == Len(log) - Len(draws) - 2
    IN  /\ p >= 1
        /\ log[p].op = "place_lines"
        /\ log[p + 1].op = "clear_color"
        /\ log[p + 2].op = "clear"
        /\ \A i \in 1..Len(draws) :
              /\ log[p + 2 + i].op = draws[i]
              /\ log[p + 2 + i].tex = TextureOfMode(mode)
        /\ \A i \in 1..(p - 1) : log[i].op \in SimulationOps
        /\ CountOp(log, "place_lines") = 1
        /\ CountOp(log, "clear") = 1

\* C8: in every animate call, whether or not a substep ran, the frame ends
\* with place_lines once, after the last substep, then the framebuffer clear
\* once, then the one draw path of the current mode: draw_lines and
\* draw_endpoints for Normal; draw_texture of the noise, velocity, pressure
\* or divergence texture for DebugNoise, DebugFluid, DebugPressure,
\* DebugDivergence, and of no other texture.
C8_FrameTail ==
    [][frames' # frames => FrameTailOf(calls', settings.mode)]_vars

\* A DebugPressure frame in which no substep ran: place_lines, the clear and
\* the pressure texture are all that was issued.
C8_Witness ==
    /\ AfterAnimate
    /\ settings.mode = "DebugPressure"
    /\ SubstepsOfFrame = 0
    /\ Len(calls) = 4
    /\ calls[1].op = "place_lines"
    /\ calls[4] = Call("draw_texture", 0, 0, "pressure")

IsSimulationCall(c) == c.op \in SimulationOps

IsNoDrawCall(c) == c.op \notin DrawOps

\* C9 (under SpecModes): two runs given the same animate timestamps and the
\* same simulation rate, whose settings differ only in mode (also when update
\* changes the mode between frames), have the same clock state
\* (last_timestamp, elapsed_time, frame_time) and issue the same noise and
\* solver passes; within a frame only the draw calls differ.
C9_ModeIndependence ==
    /\ twin.last_timestamp = last_timestamp
    /\ twin.elapsed_time = elapsed_time
    /\ twin.frame_time = frame_time
    /\ SelectSeq(twin.calls, IsSimulationCall) = SelectSeq(calls, IsSimulationCall)
    /\ AfterAnimate =>
           SelectSeq(twin.calls, IsNoDrawCall) = SelectSeq(calls, IsNoDrawCall)

\* Both runs have just run the same substeps in a second or later frame, one
\* drawing the lines and the other the pressure texture.
C9_Witness ==
    /\ AfterAnimate
    /\ frames >= 2
    /\ SubstepsOfFrame >= 1
    /\ settings.mode = "Normal"
    /\ twin.settings.mode = "DebugPressure"
    /\ twin.calls # calls
    /\ twin.calls[Len(twin.calls)] = Call("draw_texture", 0, 0, "pressure")

\* C10: in every reachable state fluid_timestep equals
\* 1 / fluid_simulation_frame_rate of the settings the orchestrator holds;
\* after update(settings) with another rate the next animate uses the
\* substep of the new rate.
C10_SubstepFollowsSettings ==
    fluid_timestep = Reciprocal(settings.fluid_simulation_frame_rate)

\* The place_lines call of a log that holds one.
PlaceLines(log) == log[CHOOSE i \in 1..Len(log) : log[i].op = "place_lines"]

\* place_lines comes after every noise and solver pass of the log.
PlacedAfterSubsteps(log) ==
    \A i, j \in 1..Len(log) :
        (log[i].op = "place_lines" /\ log[j].op \in SimulationOps) => j < i

\* C11 as stated: in every animate call place_lines receives the velocity
\* field as left by the last substep, the post-wrap elapsed_time and the
\* unclamped delta 0.001 * (timestamp - previous last_timestamp), also when
\* that delta exceeds MAX_FRAME_TIME.
C11_UnclampedDisplayDelta ==
    [][frames' # frames =>
        /\ CountOp(calls', "place_lines") = 1
        /\ PlacedAfterSubsteps(calls')
        /\ PlaceLines(calls').tex = "velocity"
        /\ PlaceLines(calls').t = elapsed_time'
        /\ PlaceLines(calls').dt = MsToSeconds(last_timestamp' - last_timestamp)
    ]_vars

\* C11, amended: the delta place_lines receives is the clamped one,
\* min(0.001 * (timestamp - previous last_timestamp), MAX_FRAME_TIME), the
\* value that was added to the clock.
C11_PlaceLinesArguments ==
    [][frames' # frames =>
        /\ CountOp(calls', "place_lines") = 1
        /\ PlacedAfterSubsteps(calls')
        /\ PlaceLines(calls').tex = "velocity"
        /\ PlaceLines(calls').t = elapsed_time'
        /\ PlaceLines(calls').dt = UsedDelta(last_timestamp, last_timestamp')
    ]_vars

\* The first animate call came 250 ms after the last timestamp, ran
\* substeps and wrapped the timer: place_lines got MAX_FRAME_TIME and the
\* wrapped elapsed_time.
C11_Witness ==
    /\ AfterAnimate
    /\ frames = 1
    /\ MsToSeconds(advance) > MAX_FRAME_TIME
    /\ SubstepsOfFrame >= 1
    /\ PlaceLines(calls).dt = MAX_FRAME_TIME
    /\ PlaceLines(calls).t = elapsed_time
    /\ elapsed_time < MAX_FRAME_TIME

\* The cumulative substep counts C12 states for the timestamps 0, 16, 33, 50.
C12_StatedCounts == <<0, 0, 1, 1>>

\* The counts the timestamps 0, 16, 33, 50 give at 30 Hz: 33 ms is less than
\* 1/30 s, so the first substep is due only in the fourth call.
C12_Counts == <<0, 0, 0, 1>>

\* The run of the scenario of C12: built with 30 Hz, given 0, 16, 33, 50 ms.
C12_Scenario ==
    /\ script = <<0, 16, 33, 50>>
    /\ 30 * fluid_timestep = TicksPerSecond
    /\ frames >= 1

\* C12 as stated (under SpecScript): with fluid_simulation_frame_rate = 30
\* and a fresh orchestrator, animate at 0, 16, 33, 50 ms gives cumulative
\* substep counts 0, 0, 1, 1 after the first to the fourth call.
C12_ScenarioAsStated == C12_Scenario => substeps = C12_StatedCounts[frames]

\* C12, amended: the cumulative counts are 0, 0, 0, 1.
C12_ScenarioCounts == C12_Scenario => substeps = C12_Counts[frames]

\* The fourth call of the scenario has run the one substep.
C12_Witness ==
    /\ C12_Scenario
    /\ AfterAnimate
    /\ frames = 4
    /\ last_timestamp = 50
    /\ substeps = 1
    /\ SubstepsOfFrame = 1

ClampedSum == MsToSeconds(last_timestamp - advance) + used

\* C16: for animate calls with non-decreasing timestamps and a constant
\* fluid_timestep T > 0, in exact arithmetic the substeps executed so far
\* number floor(S / T) and frame_time is S - T * floor(S / T), S being the sum
\* of the clamped deltas so far: no due substep is skipped, none runs early.
C16_LeftoverCarryOver ==
    (~backwards /\ fluid_timestep > 0) =>
        LET S  == ClampedSum
            S0 == MsToSeconds(last_timestamp - advance)
        IN  /\ (S0 \div fluid_timestep) + substeps = S \div fluid_timestep
            /\ frame_time = S - fluid_timestep * (S \div fluid_timestep)

\* After three or more frames, one of them clamped, substeps have run and the
\* last frame ran none: what it added stays in the accumulator.
C16_Witness ==
    /\ AfterAnimate
    /\ ~backwards
    /\ frames >= 3
    /\ MsToSeconds(advance) > used
    /\ substeps >= 4
    /\ SubstepsOfFrame = 0
    /\ timestep > 0
    /\ frame_time >= timestep

\* The passes of a substep that take the step duration.
TimedOps ==
    {"advect_forward", "advect_reverse", "adjust_advection", "diffuse",
     "blend_noise_into"}

\* C18: within one animate call every substep passes the same values: noise
\* generate receives the post-wrap elapsed_time each time, and advect
\* forward, advect reverse, adjust advection, diffuse and blend noise
\* receive fluid_timestep, never the frame delta.
C18_SameArgumentsEverySubstep ==
    [][frames' # frames =>
        \A i \in 1..Len(calls') :
            /\ calls'[i].op = "generate" => calls'[i].t = elapsed_time'
            /\ calls'[i].op \in TimedOps => calls'[i].dt = fluid_timestep
    ]_vars

\* A frame that wrapped the timer and ran at least two substeps with a frame
\* delta other than fluid_timestep.
C18_Witness ==
    /\ AfterAnimate
    /\ SubstepsOfFrame >= 2
    /\ timestep # fluid_timestep
    /\ elapsed_time < timestep
    /\ calls[1].op = "generate" /\ calls[1].t = elapsed_time
    /\ calls[Len(PassOrder) + 1].op = "generate"
    /\ calls[Len(PassOrder) + 1].t = elapsed_time
    /\ calls[Len(PassOrder) + 2].dt = fluid_timestep

\* ------------------------------------------------------------------ C17

\* The last operation was an update call.
AfterUpdate == Len(calls) > 0 /\ calls[Len(calls)].op = "noise_generator_update"

\* C17: update(settings) replaces the held settings with the given bundle and
\* calls update on the fluid solver, the drawer and the noise generator exactly
\* once each and nothing else (no simulation pass, no draw call), the noise
\* generator receiving the noise channels of the new bundle; it returns
\* normally and leaves last_timestamp, elapsed_time and frame_time unchanged.
C17_UpdateReplacesSettingsOnly ==
    [][\A s \in SettingsSet :
          UpdateCall(s) =>
             /\ settings' = s
             /\ Len(calls') = 3
             /\ CountOp(calls', "fluid_update") = 1
             /\ CountOp(calls', "drawer_update") = 1
             /\ CountOp(calls', "noise_generator_update") = 1
             /\ \A i \in 1..Len(calls') :
                   /\ calls'[i].op \notin SimulationOps \cup DrawOps
                   /\ calls'[i].op = "noise_generator_update"
                         => calls'[i].arg = s.noise_channels
                   /\ calls'[i].op \in {"fluid_update", "drawer_update"}
                         => calls'[i].arg = s
             /\ status' = "running"
             /\ outcome' = OkOutcome
             /\ last_timestamp' = last_timestamp
             /\ elapsed_time' = elapsed_time
             /\ frame_time' = frame_time]_vars

\* An update that changed the rate and the noise channels of the settings
\* while a leftover was waiting in the accumulator.
C17_Witness ==
    /\ AfterUpdate
    /\ frames > 0
    /\ frame_time > 0
    /\ Reciprocal(settings.fluid_simulation_frame_rate) # fluid_timestep
    /\ settings.noise_channels # <<>>
    /\ calls[3].arg = settings.noise_channels

\* ------------------------------------------------------------------ C14

\* The operations of a log, in order.
OpsOf(log) == [i \in 1..Len(log) |-> log[i].op]

\* The arguments of the calls of one operation, in order.
ArgsOf(log, op) ==
    LET picked == SelectSeq(log, LAMBDA c : c.op = op)
    IN  [i \in 1..Len(picked) |-> picked[i].arg]

\* The operations of building the noise field for a list of channels.
NoiseFieldOps(channels) ==
    <<"noise_generator_new">> \o [i \in 1..Len(channels) |-> "add_channel"]
                              \o <<"build">>

\* C14: construction builds the fluid solver, then the drawer, then the noise
\* generator (one add_channel per noise channel of the settings, in order, then
\* build). At the first of the three that fails it stops: no later component
\* is constructed, no orchestrator is returned, and the result is CannotRender
\* of that component's problem. When all three succeed it returns an
\* orchestrator with last_timestamp = elapsed_time = frame_time = 0.
C14_ConstructionOrderAndFailure ==
    [][\A size \in Sizes, s \in SettingsSet :
         \A fluid_result, drawer_result, build_result \in ComponentResults :
            New(size, s, fluid_result, drawer_result, build_result) =>
               /\ status' = "failed" => UNCHANGED <<settings, clock>>
               /\ IF fluid_result.kind # "Ok"
                  THEN /\ OpsOf(calls') = <<"fluid_new">>
                       /\ status' = "failed"
                       /\ outcome' = CannotRender(fluid_result.problem)
                  ELSE IF drawer_result.kind # "Ok"
                  THEN /\ OpsOf(calls') = <<"fluid_new", "drawer_new">>
                       /\ status' = "failed"
                       /\ outcome' = CannotRender(drawer_result.problem)
                  ELSE /\ OpsOf(calls') = <<"fluid_new", "drawer_new">>
                                            \o NoiseFieldOps(s.noise_channels)
                       /\ ArgsOf(calls', "add_channel") = s.noise_channels
                       /\ IF build_result.kind # "Ok"
                          THEN /\ status' = "failed"
                               /\ outcome' = CannotRender(build_result.problem)
                          ELSE /\ status' = "running"
                               /\ outcome' = OkOutcome
                               /\ settings' = s
                               /\ last_timestamp' = 0
                               /\ elapsed_time' = 0
                               /\ frame_time' = 0]_vars

\* The drawer failed after the fluid solver was built: no noise generator was
\* started and the drawer's problem is what construction returns.
C14_Witness ==
    /\ status = "failed"
    /\ OpsOf(calls) = <<"fluid_new", "drawer_new">>
    /\ outcome = CannotRender("problem_b")

\* ------------------------------------------------------------------ C15

\* C15: resize calls the drawer's resize, with the sizes it was given, and
\* nothing else (no fluid or noise generator operation); it leaves
\* last_timestamp, elapsed_time, frame_time, fluid_timestep and the held
\* settings unchanged. A failure of the drawer's resize is not returned: it is
\* a panic.
C15_ResizeDrawerOnly ==
    [][\A size \in Sizes, drawer_result \in ComponentResults :
          Resize(size, drawer_result) =>
             /\ OpsOf(calls') = <<"drawer_resize">>
             /\ calls'[1].arg = size
             /\ UNCHANGED <<clock, settings>>
             /\ IF drawer_result.kind = "Ok"
                THEN outcome' = OkOutcome /\ status' = "running"
                ELSE outcome' = Panic(drawer_result.problem)
                     /\ status' = "panicked"]_vars

\* A resize between two frames, with a leftover in the accumulator, in which
\* the drawer reported a problem.
C15_Witness ==
    /\ status = "panicked"
    /\ outcome = Panic("problem_a")
    /\ OpsOf(calls) = <<"drawer_resize">>
    /\ frames > 0
    /\ frame_time > 0

====
